---- MODULE Spec2Model ----
(***************************************************************************)
(* Model of the BiomarkerKB client (src/bkb_client.py) and of the download *)
(* routines of the stand-alone scripts.                                    *)
(*                                                                         *)
(* One fetch = one call of download_with_size_escalation.  Every action is *)
(* one remote call together with all the local code that runs until the    *)
(* next remote call (or until the function returns / raises).  The server  *)
(* is the environment: each action draws the server's answer from a small  *)
(* set.                                                                    *)
(*                                                                         *)
(* Line 169 of src/bkb_client.py carries a stray shell command after       *)
(* "try:"; the model follows the evident statement  try: create_list(...)  *)
(***************************************************************************)
EXTENDS Integers, Sequences, FiniteSets, TLC

VARIABLES
    initial_size,        \* argument initial_size (None or an integer)
    max_attempts,        \* argument max_attempts
    attempt_size,        \* local attempt_size
    attempts,            \* local attempts
    previous_row_count,  \* local previous_row_count
    list_id,             \* local list_id of the current round
    pc,                  \* "create" | "download" | "json" | "done" | "raised"
    result,              \* the returned value once pc = "done"
    exit,                \* which return / raise statement ended the fetch
    round,               \* number of the current round (iterations of while True)
    requests,            \* history: every HTTP request issued, in order
    warnings,            \* history: rounds in which ensure_complete_results printed
    dl_routine,          \* script model: routine that handled the last download
    dl_resp,             \* script model: the response it was given
    dl_json,             \* script model: the answer to the client's JSON request
    dl_out,              \* script model: what it returned / raised
    dl_pc,               \* script model: "idle" | "json" (client fallback pending)
    biomarkers_to_enrich,  \* entity script: the query terms read from the sheet
    position,            \* entity script: index of the term the for-loop is at
    b_pc,                \* entity script: "create" | "download" | "done" | "crashed"
    b_list_id,           \* entity script: list_id of the current term
    all_results,         \* entity script: all_results
    step_1_successes,    \* entity script: step_1_successes
    step_2_successes,    \* entity script: step_2_successes
    b_answers            \* history: the server's answers for each term handled

vars == <<initial_size, max_attempts, attempt_size, attempts, previous_row_count,
          list_id, pc, result, exit, round, requests, warnings,
          dl_routine, dl_resp, dl_json, dl_out, dl_pc,
          biomarkers_to_enrich, position, b_pc, b_list_id, all_results,
          step_1_successes, step_2_successes, b_answers>>

fetchVars == <<initial_size, max_attempts, attempt_size, attempts, previous_row_count,
               list_id, pc, result, exit, round, requests, warnings>>

dlVars == <<dl_routine, dl_resp, dl_json, dl_out, dl_pc>>

batchVars == <<biomarkers_to_enrich, position, b_pc, b_list_id, all_results,
               step_1_successes, step_2_successes, b_answers>>

(***************************************************************************)
(* Bounds and program constants                                            *)
(***************************************************************************)
MaxInitialSize == 2        \* small initial sizes 1..MaxInitialSize
MaxRows == 4               \* the server may return 0..MaxRows rows (and more, below)
MaxAttemptsBound == 3      \* max_attempts ranges over 1..MaxAttemptsBound

INITIAL_SEARCH_SIZE == 50000
MAX_SIZE_ATTEMPTS == 4
ENTITY_SEARCH_SIZE == 10000

None == -1                 \* Python None where an Optional[int] is expected

ListIds == {"L1", "L2"}
Query == "cerebrospinal fluid"

InitialSizes == {None} \cup (1..MaxInitialSize) \cup {ENTITY_SEARCH_SIZE, INITIAL_SEARCH_SIZE}
MaxAttemptsOpts == (1..MaxAttemptsBound) \cup {MAX_SIZE_ATTEMPTS}

MaxQueries == 2            \* the input sheet holds 0..MaxQueries terms

(***************************************************************************)
(* Server answers                                                          *)
(***************************************************************************)
\* Row counts the server may deliver in a round asking for `size`, after a
\* round that delivered `prev` rows: a small full range, the neighbourhood of
\* the requested size, its double, the previous count and 3200.
RowChoices(size, prev) ==
    (0..MaxRows) \cup {3200}
        \cup (IF size # None THEN {size - 1, size, size + 1, 2 * size} ELSE {})
        \cup (IF prev # None THEN {prev} ELSE {})

\* Answer to POST /biomarker/search.  http: transport and status outcome.
\* body: "not_json" (HTML/text), "non_object" (a JSON array, string, number
\* or null), "object" (a JSON object).  field: the object's list_id member:
\* "<absent>", "<null>", "" or an identifier.
CreateResponses ==
    {[http |-> "error", body |-> "-", field |-> "-"],
     [http |-> "ok", body |-> "not_json", field |-> "-"],
     [http |-> "ok", body |-> "non_object", field |-> "-"]}
    \cup {[http |-> "ok", body |-> "object", field |-> f] :
            f \in {"<absent>", "<null>", ""} \cup ListIds}

\* Answer to POST /data/list_download with format csv.  lines: number of
\* lines of the body (0: empty text).  shape: "csv" (a header line and
\* lines - 1 well-formed rows), "blank" (nothing to parse: EmptyDataError),
\* "malformed" (ParserError / UnicodeDecodeError).
CsvResponses(rows) ==
    {[http |-> "error", lines |-> 0, shape |-> "-"],
     [http |-> "ok", lines |-> 0, shape |-> "-"],
     [http |-> "ok", lines |-> 1, shape |-> "csv"]}
    \cup {[http |-> "ok", lines |-> r + 1, shape |-> "csv"] : r \in rows \ {0}}
    \cup {[http |-> "ok", lines |-> 2, shape |-> s] : s \in {"blank", "malformed"}}

\* Answer to POST /data/list_download with format json.  decode: "invalid"
\* (json.loads fails), "list" (a list of n records), "other" (any other value).
JsonResponses(rows) ==
    {[http |-> "error", decode |-> "-", n |-> 0],
     [http |-> "ok", decode |-> "invalid", n |-> 0],
     [http |-> "ok", decode |-> "other", n |-> 0]}
    \cup {[http |-> "ok", decode |-> "list", n |-> r] : r \in rows}

(***************************************************************************)
(* Values                                                                  *)
(***************************************************************************)
\* A DataFrame: its number of rows and how it was produced.
DataFrame(n, how) == [rows |-> n, how |-> how]
IsFrame(v) == "rows" \in DOMAIN v
\* len(df)
RowCount(df) == df.rows
\* A raised exception, the value None, a returned string, "not returned yet".
Raise(e) == [raise |-> e]
Raised(v) == "raise" \in DOMAIN v
NoneValue == [none |-> TRUE]
IsNone(v) == "none" \in DOMAIN v
Str(s) == [str |-> s]
Pending == [pending |-> TRUE]

(***************************************************************************)
(* src/Biomarker_by_specimen.py: payload_factory                           *)
(***************************************************************************)
\* mutant: the size is put under the wrong key
payload_factory_wrong_key(size) ==
    IF size # None
    THEN [specimen_name |-> Query, page_size |-> size]
    ELSE [specimen_name |-> Query]

payload_factory(size) ==
    IF size # None
    THEN [specimen_name |-> Query, size |-> size]
    ELSE [specimen_name |-> Query]

(***************************************************************************)
(* src/bkb_client.py: create_list and its helper                           *)
(***************************************************************************)
\* response.json(): ValueError on a body that is not JSON
SafeJson(resp) ==
    IF resp.body = "not_json" THEN Raise("BiomarkerKBError") ELSE [data |-> resp]

\* data.get("list_id") on a dict: None for an absent key or a JSON null
DictGet(field) == IF field \in {"<absent>", "<null>"} THEN NoneValue ELSE Str(field)

\* Python truthiness of the looked-up value: None and "" are falsy
Falsy(v) == IsNone(v) \/ v = Str("")

create_list(resp) ==
    IF resp.http = "error"
    THEN Raise("BiomarkerKBError")
    ELSE LET data == SafeJson(resp) IN
         IF Raised(data) THEN data
         ELSE IF resp.body # "object"
              THEN Raise("AttributeError")  \* .get on a list, str, number or None
              ELSE LET id == DictGet(resp.field) IN
                   IF Falsy(id) THEN Raise("BiomarkerKBError") ELSE id

(***************************************************************************)
(* src/bkb_client.py: download_list                                        *)
(***************************************************************************)
\* pd.read_csv: header plus lines - 1 rows; EmptyDataError gives an empty
\* frame; ParserError / UnicodeDecodeError become BiomarkerKBError
ParseCsv(resp) ==
    CASE resp.shape = "csv" -> DataFrame(resp.lines - 1, "csv")
      [] resp.shape = "blank" -> DataFrame(0, "empty_data")
      [] OTHER -> Raise("BiomarkerKBError")

\* not response.text or len(response.text.splitlines()) <= 1
NoDataRows(resp) == resp.lines = 0 \/ resp.lines <= 1

NeedsFallback(v) == "fallback" \in DOMAIN v

\* mutant: a transport error of the CSV request also enters the JSON fallback
DownloadListCsvRetries(resp) ==
    IF resp.http = "error"
    THEN [fallback |-> TRUE]
    ELSE IF resp.lines = 0 \/ resp.lines <= 1
         THEN DataFrame(0, "empty_body")
         ELSE LET parsed == ParseCsv(resp) IN
              IF Raised(parsed) THEN [fallback |-> TRUE] ELSE parsed

\* The CSV leg.  [fallback |-> TRUE]: the except-branch that issues the JSON
\* request has been entered.
DownloadListCsv(resp) ==
    IF resp.http = "error"
    THEN Raise("BiomarkerKBError")
    ELSE IF NoDataRows(resp)
         THEN DataFrame(0, "empty_body")
         ELSE LET parsed == ParseCsv(resp) IN
              IF Raised(parsed) THEN [fallback |-> TRUE] ELSE parsed

\* mutant: an empty JSON list is taken for an unexpected structure
DownloadListJsonEmptyFails(resp) ==
    IF resp.http = "error"
    THEN Raise("BiomarkerKBError")
    ELSE CASE resp.decode = "invalid" -> Raise("BiomarkerKBError")
           [] resp.decode = "list" /\ resp.n > 0 -> DataFrame(resp.n, "json")
           [] OTHER -> Raise("BiomarkerKBError")

\* mutant: json.JSONDecodeError is not wrapped into BiomarkerKBError
DownloadListJsonUnwrapped(resp) ==
    IF resp.http = "error"
    THEN Raise("BiomarkerKBError")
    ELSE CASE resp.decode = "invalid" -> Raise("JSONDecodeError")
           [] resp.decode = "list" -> DataFrame(resp.n, "json")
           [] OTHER -> Raise("BiomarkerKBError")

\* The JSON leg, run inside the except-branch.
DownloadListJson(resp) ==
    IF resp.http = "error"
    THEN Raise("BiomarkerKBError")
    ELSE CASE resp.decode = "invalid" -> Raise("BiomarkerKBError")
           [] resp.decode = "list" -> DataFrame(resp.n, "json")
           [] OTHER -> Raise("BiomarkerKBError")

\* mutant: the download always names the same list
DownloadPayloadFixedId(id, format) ==
    [id |-> "L1", download_type |-> "biomarker_list", format |-> format, compressed |-> FALSE]

\* The payload of a download request
DownloadPayload(id, format) ==
    [id |-> id, download_type |-> "biomarker_list", format |-> format, compressed |-> FALSE]

(***************************************************************************)
(* src/bkb_client.py: ensure_complete_results                              *)
(***************************************************************************)
\* mutant: > instead of >=
EnsureCompleteResultsStrict(df, page_hint) ==
    IF page_hint = None \/ RowCount(df) = 0
    THEN FALSE
    ELSE RowCount(df) > page_hint

\* TRUE when the warning is printed
EnsureCompleteResults(df, page_hint) ==
    IF page_hint = None \/ RowCount(df) = 0
    THEN FALSE
    ELSE RowCount(df) >= page_hint

(***************************************************************************)
(* src/bkb_client.py: the tests of the escalation loop                     *)
(***************************************************************************)
\* mutant: the test for an absent size is missing
IsCompleteIgnoresSize(size, row_count) == row_count = 0

\* if attempt_size is None or row_count == 0: return df
IsComplete(size, row_count) == size = None \/ row_count = 0

\* mutant: the test for a short table is missing
IsShortNever(size, row_count) == FALSE

\* mutant: off by one, a table one row short of the size is not "short"
IsShortOffByOne(size, row_count) == row_count < size - 1

\* if row_count < attempt_size: return df
IsShort(size, row_count) == row_count < size

\* mutant: the anti-thrash test is missing
IsStalledNever(prev, row_count) == FALSE

\* if previous_row_count == row_count: return df
IsStalled(prev, row_count) == prev = row_count

\* mutant: > instead of >=
BudgetSpentLate(n, max) == n > max

\* attempts += 1; if attempts >= max_attempts: return df
BudgetSpent(n, max) == n >= max

\* mutant: the size is not changed
NextSizeSame(size) == size

\* mutant: += 2 instead of *= 2
NextSizeAdds(size) == size + 2

\* attempt_size *= 2 if attempt_size is not None else None
\* parses as attempt_size *= (2 if ... else None); the factor is 2 for a
\* present size.  With an absent size it is None * None, a TypeError.
NextSize(size) == size * 2
NextSizeRaises(size) == size = None

(***************************************************************************)
(* src/bkb_client.py: download_with_size_escalation                        *)
(***************************************************************************)
Init ==
    /\ initial_size \in InitialSizes
    /\ max_attempts \in MaxAttemptsOpts
    /\ attempt_size = initial_size
    /\ attempts = 0
    /\ previous_row_count = None
    /\ list_id = "-"
    /\ pc = "create"
    /\ result = Pending
    /\ exit = "-"
    /\ round = 0
    /\ requests = <<>>
    /\ warnings = <<>>
    /\ dl_routine = "-"
    /\ dl_resp = [http |-> "-"]
    /\ dl_json = [http |-> "-"]
    /\ dl_out = Pending
    /\ dl_pc = "off"
    /\ biomarkers_to_enrich = <<>>
    /\ position = 0
    /\ b_pc = "off"
    /\ b_list_id = "-"
    /\ all_results = <<>>
    /\ step_1_successes = 0
    /\ step_2_successes = 0
    /\ b_answers = <<>>

\* One entry of the request history.
\* outcome: "ok", "transport_error", "bad_response" (BiomarkerKBError after a
\* transport-successful answer), "parse_failed" (CSV answer that sends
\* download_list into its JSON fallback), "raised" (any other exception).
Request(kind, format, payload, id, resp, outcome, rows) ==
    [kind |-> kind, round |-> IF kind = "create" THEN round + 1 ELSE round,
     format |-> format, size |-> attempt_size, payload |-> payload, id |-> id,
     resp |-> resp, outcome |-> outcome, rows |-> rows]

Outcome(resp, out) ==
    IF resp.http = "error" THEN "transport_error"
    ELSE IF NeedsFallback(out) THEN "parse_failed"
    ELSE IF ~Raised(out) THEN "ok"
    ELSE IF out.raise = "BiomarkerKBError" THEN "bad_response"
    ELSE "raised"

\* return <v> at the statement named `why`
Return(v, why) == pc' = "done" /\ result' = v /\ exit' = why

\* an exception that no handler of the function catches
Escape(e) == pc' = "raised" /\ result' = Raise(e) /\ exit' = e

\* Top of the loop up to the result of create_list (lines 164-173).
CreateStep ==
    /\ pc = "create"
    /\ \E resp \in CreateResponses :
         LET payload == payload_factory(attempt_size)
             out == create_list(resp)
             id == IF Raised(out) THEN "-" ELSE out.str
         IN /\ round' = round + 1
            /\ requests' = Append(requests,
                                 Request("create", "-", payload, id, resp,
                                         Outcome(resp, out), None))
            /\ IF Raised(out)
               THEN /\ IF out.raise = "BiomarkerKBError"
                       THEN Return(NoneValue, "create_failed")
                       ELSE Escape(out.raise)
                    /\ UNCHANGED list_id
               ELSE /\ list_id' = out.str
                    /\ pc' = "download"
                    /\ UNCHANGED <<result, exit>>
    /\ UNCHANGED <<initial_size, max_attempts, attempt_size, attempts,
                   previous_row_count, warnings>>
    /\ UNCHANGED dlVars
    /\ UNCHANGED batchVars

\* Lines 182-211: what the loop does with a downloaded table.
Inspect(df) ==
    LET row_count == RowCount(df)
        table == [rows |-> df.rows, how |-> df.how, round |-> round]
    IN /\ warnings' = IF EnsureCompleteResults(df, attempt_size)
                      THEN Append(warnings, round) ELSE warnings
       /\ IF IsComplete(attempt_size, row_count)
          THEN /\ Return(table, "complete")
               /\ UNCHANGED <<attempts, previous_row_count, attempt_size>>
          ELSE IF IsShort(attempt_size, row_count)
          THEN /\ Return(table, "short")
               /\ UNCHANGED <<attempts, previous_row_count, attempt_size>>
          ELSE IF IsStalled(previous_row_count, row_count)
          THEN /\ Return(table, "stalled")
               /\ UNCHANGED <<attempts, previous_row_count, attempt_size>>
          ELSE /\ attempts' = attempts + 1
               /\ IF BudgetSpent(attempts + 1, max_attempts)
                  THEN /\ Return(table, "exhausted")
                       /\ UNCHANGED <<previous_row_count, attempt_size>>
                  ELSE /\ previous_row_count' = row_count
                       /\ IF NextSizeRaises(attempt_size)
                          THEN /\ Escape("TypeError")
                               /\ UNCHANGED attempt_size
                          ELSE /\ attempt_size' = NextSize(attempt_size)
                               /\ pc' = "create"
                               /\ UNCHANGED <<result, exit>>

\* download_list raised e: except BiomarkerKBError (lines 178-180) returns
\* None, anything else leaves the function.
DownloadRaised(e) ==
    /\ IF e = "BiomarkerKBError"
       THEN Return(NoneValue, "download_failed")
       ELSE Escape(e)
    /\ UNCHANGED <<attempts, previous_row_count, attempt_size, warnings>>

\* download_list up to the outcome of the CSV request (lines 175-101), then
\* the rest of the round when a table came back.
DownloadCsvStep ==
    /\ pc = "download"
    /\ \E resp \in CsvResponses(RowChoices(attempt_size, previous_row_count)) :
         LET out == DownloadListCsv(resp)
             rows == IF IsFrame(out) THEN RowCount(out) ELSE None
         IN /\ requests' = Append(requests,
                                 Request("download", "csv",
                                         DownloadPayload(list_id, "csv"),
                                         list_id, resp, Outcome(resp, out), rows))
            /\ IF NeedsFallback(out)
               THEN /\ pc' = "json"
                    /\ UNCHANGED <<result, exit, attempts, previous_row_count,
                                   attempt_size, warnings>>
               ELSE IF Raised(out)
               THEN DownloadRaised(out.raise)
               ELSE Inspect(out)
    /\ UNCHANGED <<initial_size, max_attempts, list_id, round>>
    /\ UNCHANGED dlVars
    /\ UNCHANGED batchVars

\* The JSON fallback of download_list (lines 102-131), then the rest of the
\* round when a table came back.
DownloadJsonStep ==
    /\ pc = "json"
    /\ \E resp \in JsonResponses(RowChoices(attempt_size, previous_row_count)) :
         LET out == DownloadListJson(resp)
             rows == IF IsFrame(out) THEN RowCount(out) ELSE None
         IN /\ requests' = Append(requests,
                                 Request("download", "json",
                                         DownloadPayload(list_id, "json"),
                                         list_id, resp, Outcome(resp, out), rows))
            /\ IF Raised(out) THEN DownloadRaised(out.raise) ELSE Inspect(out)
    /\ UNCHANGED <<initial_size, max_attempts, list_id, round>>
    /\ UNCHANGED dlVars
    /\ UNCHANGED batchVars

Next == CreateStep \/ DownloadCsvStep \/ DownloadJsonStep

Spec == Init /\ [][Next]_vars

(***************************************************************************)
(* The download routines side by side: bkb_client.download_list and        *)
(* download_list_data of the entity and record-type scripts, each applied  *)
(* to one answer of the download endpoint.                                  *)
(***************************************************************************)
\* src/Biomaerker_by_entity.py: download_list_data.  RequestException and
\* EmptyDataError are caught; a ParserError is not.
EntityDownloadListData(resp) ==
    IF resp.http = "error"
    THEN NoneValue
    ELSE IF NoDataRows(resp)
         THEN DataFrame(0, "empty_body")
         ELSE CASE resp.shape = "csv" -> DataFrame(resp.lines - 1, "csv")
                [] resp.shape = "blank" -> NoneValue
                [] OTHER -> Raise("ParserError")

\* src/Biomarker_by_recordtype.py: download_list_data.
RecordTypeDownloadListData(resp) ==
    IF resp.http = "error"
    THEN NoneValue
    ELSE IF NoDataRows(resp)
         THEN NoneValue
         ELSE CASE resp.shape = "csv" -> DataFrame(resp.lines - 1, "csv")
                [] resp.shape = "blank" -> NoneValue
                [] OTHER -> Raise("ParserError")

ScriptRows == (0..(MaxRows + 2)) \cup {3200}

\* The answers tried on the three routines: those of the fetch, and
\* one-line bodies that are not a header (a lone newline, one broken line).
ScriptCsvResponses ==
    CsvResponses(ScriptRows)
        \cup {[http |-> "ok", lines |-> 1, shape |-> s] : s \in {"blank", "malformed"}}

InitDownloads ==
    /\ initial_size = None
    /\ max_attempts = MAX_SIZE_ATTEMPTS
    /\ attempt_size = None
    /\ attempts = 0
    /\ previous_row_count = None
    /\ list_id \in ListIds
    /\ pc = "off"
    /\ result = Pending
    /\ exit = "-"
    /\ round = 0
    /\ requests = <<>>
    /\ warnings = <<>>
    /\ dl_routine = "-"
    /\ dl_resp = [http |-> "-"]
    /\ dl_json = [http |-> "-"]
    /\ dl_out = Pending
    /\ dl_pc = "idle"
    /\ biomarkers_to_enrich = <<>>
    /\ position = 0
    /\ b_pc = "off"
    /\ b_list_id = "-"
    /\ all_results = <<>>
    /\ step_1_successes = 0
    /\ step_2_successes = 0
    /\ b_answers = <<>>

\* bkb_client.download_list, CSV leg
ClientDownload ==
    /\ dl_pc = "idle"
    /\ list_id' \in ListIds   \* the argument list_id
    /\ \E resp \in ScriptCsvResponses :
         LET out == DownloadListCsv(resp)
         IN /\ dl_routine' = "bkb_client.download_list"
            /\ dl_resp' = resp
            /\ dl_json' = [http |-> "-"]
            /\ IF NeedsFallback(out)
               THEN dl_pc' = "json" /\ dl_out' = Pending
               ELSE dl_pc' = "idle" /\ dl_out' = out
    /\ UNCHANGED <<initial_size, max_attempts, attempt_size, attempts,
                   previous_row_count, pc, result, exit, round, requests, warnings>>
    /\ UNCHANGED batchVars

\* bkb_client.download_list, JSON leg
ClientDownloadJson ==
    /\ dl_pc = "json"
    /\ \E resp \in JsonResponses(ScriptRows) :
         /\ dl_json' = resp
         /\ dl_out' = DownloadListJson(resp)
         /\ dl_pc' = "idle"
    /\ UNCHANGED <<dl_routine, dl_resp>>
    /\ UNCHANGED fetchVars
    /\ UNCHANGED batchVars

EntityDownload ==
    /\ dl_pc = "idle"
    /\ list_id' \in ListIds   \* the argument list_id
    /\ \E resp \in ScriptCsvResponses :
         /\ dl_routine' = "entity.download_list_data"
         /\ dl_resp' = resp
         /\ dl_json' = [http |-> "-"]
         /\ dl_out' = EntityDownloadListData(resp)
    /\ UNCHANGED dl_pc
    /\ UNCHANGED <<initial_size, max_attempts, attempt_size, attempts,
                   previous_row_count, pc, result, exit, round, requests, warnings>>
    /\ UNCHANGED batchVars

RecordTypeDownload ==
    /\ dl_pc = "idle"
    /\ list_id' \in ListIds   \* the argument list_id
    /\ \E resp \in ScriptCsvResponses :
         /\ dl_routine' = "recordtype.download_list_data"
         /\ dl_resp' = resp
         /\ dl_json' = [http |-> "-"]
         /\ dl_out' = RecordTypeDownloadListData(resp)
    /\ UNCHANGED dl_pc
    /\ UNCHANGED <<initial_size, max_attempts, attempt_size, attempts,
                   previous_row_count, pc, result, exit, round, requests, warnings>>
    /\ UNCHANGED batchVars

NextDownloads ==
    ClientDownload \/ ClientDownloadJson \/ EntityDownload \/ RecordTypeDownload

SpecDownloads == InitDownloads /\ [][NextDownloads]_vars

(***************************************************************************)
(* Reading the request history                                             *)
(***************************************************************************)
IsCreate(r) == r.kind = "create"
IsDownload(r) == r.kind = "download"
IsOkDownload(r) == r.kind = "download" /\ r.outcome = "ok"
Failed(r) == r.outcome \in {"transport_error", "bad_response", "raised"}

Creates == SelectSeq(requests, IsCreate)
Downloads == SelectSeq(requests, IsDownload)
\* the downloads that delivered a table: entry i is that of round i
Tables == SelectSeq(requests, IsOkDownload)

Last(seq) == seq[Len(seq)]
Ended == pc \in {"done", "raised"}

\* the value returned is the table delivered by request r
ReturnsTableOf(r) ==
    /\ pc = "done"
    /\ IsFrame(result)
    /\ result.round = r.round
    /\ result.rows = r.rows
    /\ Last(requests) = r

\* no request of the fetch met an error, a CSV body that does not parse included
ErrorFree == \A k \in 1..Len(requests) : requests[k].outcome = "ok"

(***************************************************************************)
(* Claims on the escalation loop                                           *)
(***************************************************************************)
\* every table so far had exactly as many rows as the round asked for
EveryRoundFull == \A i \in 1..Len(Tables) : Tables[i].rows = Tables[i].size

\* C1: with initialSize >= 1 and maxAttempts >= 1, when every round is
\* answered without error and with exactly the requested number of rows, the
\* fetch never starts more than maxAttempts rounds, it has ended as soon as
\* maxAttempts rounds delivered their table, it ends in no earlier round, and
\* it returns the table of round maxAttempts (never None).
ThmC1 ==
    LET tables == Tables
        creates == Creates
    IN
    (initial_size >= 1 /\ ErrorFree /\ EveryRoundFull) =>
        /\ round <= max_attempts
        /\ Len(creates) <= max_attempts
        /\ Len(tables) = max_attempts => Ended
        /\ Ended =>
            /\ Len(creates) = max_attempts
            /\ Len(Downloads) = max_attempts
            /\ ReturnsTableOf(tables[max_attempts])
            /\ result.rows = attempt_size

WitC1 ==
    /\ initial_size >= 1 /\ ErrorFree /\ EveryRoundFull
    /\ max_attempts >= 3
    /\ pc = "done"
    /\ Len(Tables) = max_attempts
    /\ exit = "exhausted"

\* C2: with initialSize >= 1 and no errors, a round whose table has fewer
\* rows than the round asked for is the last one: the fetch has returned
\* exactly that table and no request follows it.  In particular 3200 rows for
\* a first request of 10000 end the fetch after one create and one download.
ThmC2 ==
    LET tables == Tables
        creates == Creates
    IN
    (initial_size >= 1 /\ ErrorFree) =>
        /\ \A i \in 1..Len(tables) :
              tables[i].rows < tables[i].size =>
                  /\ i = Len(tables)
                  /\ ReturnsTableOf(tables[i])
        /\ (/\ initial_size = ENTITY_SEARCH_SIZE
            /\ Len(tables) >= 1
            /\ tables[1].rows = 3200) =>
               /\ Len(requests) = 2
               /\ pc = "done"
               /\ result.rows = 3200

WitC2 ==
    /\ initial_size >= 1 /\ ErrorFree
    /\ Len(Tables) >= 2
    /\ Last(Tables).rows < Last(Tables).size
    /\ Last(Tables).rows > 0
    /\ pc = "done"

\* C3: with initialSize absent the size stays absent, the payload factory is
\* called with None only, at most one create and one CSV download are issued
\* whatever the server answers, a fetch that ended issued exactly one create
\* (and its download when the create succeeded), and the doubling statement
\* is never executed on the absent size.
ThmC3 ==
    initial_size = None =>
        /\ attempt_size = None
        /\ round <= 1
        /\ Len(Creates) <= 1
        /\ \A k \in 1..Len(requests) :
              /\ requests[k].size = None
              /\ requests[k].round = 1
              /\ IsCreate(requests[k]) => "size" \notin DOMAIN requests[k].payload
        /\ Len(SelectSeq(requests, LAMBDA r : r.format = "csv")) <= 1
        /\ exit # "TypeError"
        /\ Ended => Len(Creates) = 1
        /\ (Ended /\ requests[1].outcome = "ok") =>
              Len(SelectSeq(requests, LAMBDA r : r.format = "csv")) = 1
        /\ Len(Tables) >= 1 => ReturnsTableOf(Tables[1])

WitC3 ==
    /\ initial_size = None
    /\ max_attempts > 1
    /\ pc = "done"
    /\ IsFrame(result)
    /\ result.rows >= 3200

\* C4: when two consecutive rounds deliver the same number of rows and the
\* second one's count equals the size it asked for, the fetch returns the
\* second round's table in that round and starts no further round, also
\* while the attempt counter is below maxAttempts.
ThmC4 ==
    LET tables == Tables
        creates == Creates
    IN
    \A i \in 2..Len(tables) :
        (tables[i].rows = tables[i - 1].rows /\ tables[i].rows = tables[i].size) =>
            /\ i = Len(tables)
            /\ ReturnsTableOf(tables[i])

WitC4 ==
    /\ Len(Tables) >= 2
    /\ Last(Tables).rows = Tables[Len(Tables) - 1].rows
    /\ Last(Tables).rows = Last(Tables).size
    /\ attempts + 1 < max_attempts
    /\ pc = "done"
    /\ exit = "stalled"

\* C5: initialSize 50000, maxAttempts 4, no errors: round 1 asks for 50000
\* and gets 50000 rows, round 2 asks for 100000 and gets 50000 rows again;
\* the fetch has then ended with two creates and two downloads and returns
\* the 50000-row table of round 2.  In general a round that delivers as many
\* rows as the round before it is the last round and its table is returned.
ThmC5 ==
    LET tables == Tables
        creates == Creates
    IN
    /\ (/\ initial_size = INITIAL_SEARCH_SIZE
        /\ max_attempts = MAX_SIZE_ATTEMPTS
        /\ ErrorFree
        /\ Len(tables) >= 2
        /\ tables[1].rows = 50000
        /\ tables[2].rows = 50000) =>
           /\ tables[1].size = 50000
           /\ tables[2].size = 100000
           /\ creates[2].payload = [specimen_name |-> Query, size |-> 100000]
           /\ Len(creates) = 2
           /\ Len(Downloads) = 2
           /\ Len(requests) = 4
           /\ ReturnsTableOf(tables[2])
           /\ result.rows = 50000
    /\ \A i \in 2..Len(tables) :
          tables[i].rows = tables[i - 1].rows =>
              /\ i = Len(tables)
              /\ ReturnsTableOf(tables[i])

WitC5 ==
    /\ initial_size = INITIAL_SEARCH_SIZE
    /\ max_attempts = MAX_SIZE_ATTEMPTS
    /\ ErrorFree
    /\ Len(Tables) = 2
    /\ Tables[1].rows = 50000
    /\ Tables[2].rows = 50000
    /\ pc = "done"

(***************************************************************************)
(* Claims on error handling                                                *)
(***************************************************************************)
\* a transport-successful creation answer that carries no list identifier
CarriesNoListId(resp) ==
    /\ resp.http = "ok"
    /\ \/ resp.body \in {"not_json", "non_object"}
       \/ resp.body = "object" /\ resp.field \in {"<absent>", "<null>", ""}

\* C6: every HTTP-successful creation answer without a list_id (not JSON, a
\* JSON value without a list_id member, an empty or null list_id) makes the
\* fetch return None: nothing escapes and no download is issued after it.
CexC6 ==
    \A k \in 1..Len(requests) :
        (IsCreate(requests[k]) /\ CarriesNoListId(requests[k].resp)) =>
            /\ k = Len(requests)
            /\ pc = "done"
            /\ IsNone(result)

\* the four download-side errors, read off the server's answer
CsvTransportError(r) == r.format = "csv" /\ r.resp.http = "error"
JsonTransportError(r) == r.format = "json" /\ r.resp.http = "error"
JsonUndecodable(r) == r.format = "json" /\ r.resp.http = "ok" /\ r.resp.decode = "invalid"
JsonNotAList(r) == r.format = "json" /\ r.resp.http = "ok" /\ r.resp.decode = "other"
DownloadError(r) ==
    CsvTransportError(r) \/ JsonTransportError(r) \/ JsonUndecodable(r) \/ JsonNotAList(r)

\* C7: a download transport error, and a CSV parse failure followed by a
\* JSON transport error, an undecodable JSON body or a JSON body that is not
\* a list, each end the fetch with None in the round they occur in; no
\* exception leaves the function after a download request.
ThmC7 ==
    /\ \A k \in 1..Len(requests) :
          DownloadError(requests[k]) =>
              /\ k = Len(requests)
              /\ pc = "done"
              /\ IsNone(result)
    /\ \A k \in 1..Len(requests) :
          requests[k].format = "json" =>
              /\ k > 1
              /\ requests[k - 1].format = "csv"
              /\ requests[k - 1].outcome = "parse_failed"
    /\ pc = "raised" => IsCreate(Last(requests))

WitC7 ==
    /\ pc = "done"
    /\ IsNone(result)
    /\ Len(Tables) >= 1
    /\ JsonNotAList(Last(requests))

\* C8: in bkb_client.download_list and in download_list_data of the entity
\* and record-type scripts, an HTTP-successful answer whose body is empty or
\* a single line yields an empty table (not None, not an exception), and no
\* JSON request is made for it.
CexC8 ==
    (dl_routine # "-" /\ dl_resp.http = "ok" /\ dl_resp.lines <= 1) =>
        /\ dl_pc = "idle"
        /\ dl_json.http = "-"
        /\ IsFrame(dl_out)
        /\ RowCount(dl_out) = 0

\* C9: the fetch returns None exactly when its last remote interaction
\* failed, and a round whose creation and download succeed with zero rows
\* returns that empty table in that round.
CexC9 ==
    /\ Ended => ((pc = "done" /\ IsNone(result)) <=> Failed(Last(requests)))
    /\ \A i \in 1..Len(Tables) :
          Tables[i].rows = 0 =>
              /\ i = Len(Tables)
              /\ ReturnsTableOf(Tables[i])

\* C10: a failed request is the last request of its fetch.  A create that is
\* not the first request follows a download that delivered at least as many
\* rows as its round asked for; a JSON download follows the CSV download of
\* the same round and list whose body did not parse, and that CSV download is
\* followed by nothing else; a CSV download follows the successful create of
\* its round.
ThmC10 ==
    /\ Len(requests) >= 1 => IsCreate(requests[1])
    /\ \A k \in 1..(Len(requests) - 1) :
          LET r == requests[k]
              nxt == requests[k + 1]
          IN /\ ~Failed(r)
             /\ r.resp.http = "ok"
             /\ IsCreate(nxt) =>
                   /\ IsOkDownload(r)
                   /\ r.size # None
                   /\ r.rows >= r.size
                   /\ nxt.round = r.round + 1
             /\ nxt.format = "json" =>
                   /\ r.format = "csv"
                   /\ r.outcome = "parse_failed"
                   /\ nxt.round = r.round
                   /\ nxt.id = r.id
             /\ nxt.format = "csv" =>
                   /\ IsCreate(r)
                   /\ r.outcome = "ok"
                   /\ nxt.round = r.round
             /\ r.outcome = "parse_failed" => nxt.format = "json"
    /\ (Len(requests) >= 1 /\ Failed(Last(requests))) => Ended

WitC10 ==
    /\ Ended
    /\ Len(requests) >= 5
    /\ Failed(Last(requests))
    /\ \E k \in 1..Len(requests) : requests[k].outcome = "parse_failed"

(***************************************************************************)
(* Claims on when a further round starts                                   *)
(***************************************************************************)
\* C13 as stated: a further round starts only after a round whose row count
\* equals the size it asked for exactly.
CexC13 ==
    \A k \in 2..Len(Creates) : Tables[k - 1].rows = Tables[k - 1].size

\* C13 amended: a further round starts only after a round that asked for a
\* size and got a non-empty table with at least that many rows; a round
\* with an absent size, zero rows or fewer rows than requested returns its
\* table and is the last round.
ThmC13 ==
    LET tables == Tables
        creates == Creates
    IN
    /\ \A k \in 2..Len(creates) :
          /\ Len(tables) >= k - 1
          /\ tables[k - 1].size # None
          /\ tables[k - 1].rows > 0
          /\ tables[k - 1].rows >= tables[k - 1].size
    /\ \A i \in 1..Len(tables) :
          (\/ tables[i].size = None
           \/ tables[i].rows = 0
           \/ tables[i].rows < tables[i].size) =>
              /\ i = Len(tables)
              /\ ReturnsTableOf(tables[i])

WitC13 ==
    /\ Len(Creates) >= 3
    /\ Tables[1].rows = Tables[1].size
    /\ Tables[2].rows > Tables[2].size

(***************************************************************************)
(* Termination                                                             *)
(***************************************************************************)
\* Every remote call returns (the transport has timeouts), so a fetch that
\* can take a step eventually takes one.
SpecLive == Init /\ [][Next]_vars /\ WF_vars(Next)

\* C14: for every server behaviour and every initialSize the fetch issues at
\* most maxAttempts create requests, the attempt counter never exceeds
\* maxAttempts, and the fetch ends (returns or raises) once its remote calls
\* have returned.
ThmC14 ==
    /\ [](/\ Len(Creates) <= max_attempts
          /\ round <= max_attempts
          /\ attempts <= max_attempts
          /\ Len(Tables) <= max_attempts)
    /\ <>Ended

WitC14 ==
    /\ Ended
    /\ Len(Creates) = max_attempts
    /\ attempts = max_attempts
    /\ max_attempts = MAX_SIZE_ATTEMPTS
    /\ \E i \in 1..Len(Tables) : Tables[i].rows > Tables[i].size

(***************************************************************************)
(* Claims on the sizes sent                                                *)
(***************************************************************************)
RECURSIVE Pow2(_)
Pow2(n) == IF n = 0 THEN 1 ELSE 2 * Pow2(n - 1)

\* C15: with initialSize s present, the create request of round i carries
\* the size s * 2^(i-1); the specimen payload holds the filter key in every
\* round, a size member equal to that size, and no size member exactly when
\* the size is absent.  The previous row count held when round i+1 starts
\* (and during it) is the row count of round i; in round 1 it is absent.
ThmC15 ==
    LET tables == Tables
        creates == Creates
    IN
    /\ \A i \in 1..Len(creates) :
          LET c == creates[i] IN
          /\ c.round = i
          /\ c.size = IF initial_size = None THEN None
                      ELSE initial_size * Pow2(i - 1)
          /\ "specimen_name" \in DOMAIN c.payload
          /\ c.payload.specimen_name = Query
          /\ ("size" \in DOMAIN c.payload) <=> (c.size # None)
          /\ c.size # None => c.payload.size = c.size
          /\ DOMAIN c.payload \subseteq {"specimen_name", "size"}
    /\ (pc = "create" /\ round >= 1) =>
          /\ Len(tables) = round
          /\ previous_row_count = tables[round].rows
    /\ (pc # "create" /\ round >= 2) => previous_row_count = tables[round - 1].rows
    /\ (pc # "create" /\ round <= 1) => previous_row_count = None
    /\ round = 0 => previous_row_count = None

WitC15 ==
    /\ initial_size = MaxInitialSize
    /\ Len(Creates) = 4
    /\ Creates[4].payload.size = 8 * MaxInitialSize
    /\ previous_row_count = Tables[3].rows
    /\ previous_row_count > Tables[3].size

(***************************************************************************)
(* Claims on the order of requests                                         *)
(***************************************************************************)
\* C16: the first download request of a round asks for csv; a json request
\* directly follows the csv request of the same round, which succeeded at
\* transport level with a body of at least two lines that did not parse,
\* and carries the same list identifier; a round has at most one json
\* request; a json body that decodes to a list, the empty list included,
\* yields a table.
ThmC16 ==
    LET tables == Tables
        creates == Creates
    IN
    /\ \A k \in 1..Len(requests) :
          LET r == requests[k] IN
          /\ (IsDownload(r) /\ IsCreate(requests[k - 1])) =>
                r.payload.format = "csv"
          /\ (IsDownload(r) /\ r.payload.format = "json") =>
                LET p == requests[k - 1] IN
                /\ IsDownload(p)
                /\ p.payload.format = "csv"
                /\ p.round = r.round
                /\ p.resp.http = "ok"
                /\ p.resp.lines >= 2
                /\ p.resp.shape = "malformed"
                /\ p.payload.id = r.payload.id
          /\ (IsDownload(r) /\ r.payload.format = "json"
                /\ r.resp.http = "ok" /\ r.resp.decode = "list") =>
                /\ r.outcome = "ok"
                /\ r.rows = r.resp.n
                /\ Len(tables) >= r.round
                /\ tables[r.round] = r
    /\ \A k, l \in 1..Len(requests) :
          (/\ k < l
           /\ IsDownload(requests[k]) /\ requests[k].payload.format = "json"
           /\ IsDownload(requests[l]) /\ requests[l].payload.format = "json") =>
              requests[k].round < requests[l].round

WitC16 ==
    /\ pc = "done"
    /\ Len(requests) >= 5
    /\ Last(requests).payload.format = "json"
    /\ Last(requests).resp.decode = "list"
    /\ Last(requests).resp.n = 0
    /\ IsFrame(result)
    /\ result.rows = 0

\* C17: every download request comes after the successful create request of
\* its own round and names exactly the identifier that create returned;
\* every round issues its own create request, so a download never names the
\* identifier of an earlier round unless this round's create returned it
\* too; the create of round i+1 directly follows the download of round i
\* that delivered a table.
ThmC17 ==
    LET tables == Tables
        creates == Creates
    IN
    /\ Len(creates) = round
    /\ \A i \in 1..Len(creates) : creates[i].round = i
    /\ \A k \in 1..Len(requests) :
          LET r == requests[k] IN
          /\ IsDownload(r) =>
                /\ r.round <= Len(creates)
                /\ creates[r.round].outcome = "ok"
                /\ r.payload.id = creates[r.round].id
                /\ r.payload.id \in ListIds
                /\ \E j \in 1..(k - 1) : requests[j] = creates[r.round]
          /\ (IsCreate(r) /\ k > 1) =>
                /\ IsOkDownload(requests[k - 1])
                /\ requests[k - 1].round = r.round - 1
    /\ pc \in {"download", "json"} =>
          /\ creates[round].outcome = "ok"
          /\ list_id = creates[round].id

WitC17 ==
    /\ Len(Creates) >= 2
    /\ Creates[1].id = "L1"
    /\ Creates[2].id = "L2"
    /\ IsDownload(Last(requests))
    /\ Last(requests).round = 2
    /\ Last(requests).payload.id = "L2"

(***************************************************************************)
(* Claims on the anti-thrash return and on the truncation warning          *)
(***************************************************************************)
\* the server never delivered more rows than a round asked for
NeverMoreThanAsked == \A i \in 1..Len(Tables) : Tables[i].rows <= Tables[i].size

\* C18: with initialSize >= 1 and a server that never delivers more rows
\* than asked for, the anti-thrash return is never taken: a round that
\* repeats the previous round's row count returns through the test
\* row_count < attempt_size.  The anti-thrash return is taken only after a
\* round that delivered at least twice the size it asked for.
ThmC18 ==
    LET tables == Tables
        creates == Creates
    IN
    /\ (initial_size >= 1 /\ NeverMoreThanAsked) =>
          /\ exit # "stalled"
          /\ \A i \in 2..Len(tables) :
                tables[i].rows = tables[i - 1].rows =>
                    /\ i = Len(tables)
                    /\ tables[i].rows < tables[i].size
                    /\ exit = "short"
                    /\ ReturnsTableOf(tables[i])
    /\ exit = "stalled" =>
          /\ Len(tables) >= 2
          /\ tables[Len(tables) - 1].rows >= 2 * tables[Len(tables) - 1].size
          /\ Last(tables).rows = tables[Len(tables) - 1].rows

WitC18 ==
    /\ initial_size >= 1
    /\ NeverMoreThanAsked
    /\ Len(Tables) >= 3
    /\ Last(Tables).rows = Tables[Len(Tables) - 1].rows
    /\ exit = "short"
    /\ pc = "done"

WarnedIn(i) == \E k \in 1..Len(warnings) : warnings[k] = i

\* C19: in each round that delivered a table the truncation warning is
\* printed exactly when the size is present, the table is not empty and its
\* row count is at least the size asked for, and at most once; the round
\* then returns its unaltered table or starts the next round, it never
\* aborts; a fetch that returns a table with at least as many rows as the
\* last size asked for (attempts exhausted or anti-thrash) printed the
\* warning in its final round.
ThmC19 ==
    LET tables == Tables
        creates == Creates
    IN
    /\ \A i \in 1..Len(tables) :
          WarnedIn(i) <=> (/\ tables[i].size # None
                           /\ tables[i].rows > 0
                           /\ tables[i].rows >= tables[i].size)
    /\ \A k \in 1..Len(warnings) :
          /\ warnings[k] \in 1..Len(tables)
          /\ k > 1 => warnings[k - 1] < warnings[k]
    /\ (Len(requests) >= 1 /\ IsOkDownload(Last(requests))) =>
          \/ ReturnsTableOf(Last(requests))
          \/ pc = "create" /\ result = Pending
    /\ (pc = "done" /\ IsFrame(result) /\ attempt_size # None
                    /\ result.rows >= attempt_size) =>
          WarnedIn(round)
    /\ exit \in {"exhausted", "stalled"} =>
          /\ WarnedIn(round)
          /\ result.rows >= attempt_size

WitC19 ==
    /\ pc = "done"
    /\ exit = "exhausted"
    /\ Len(warnings) = max_attempts
    /\ max_attempts >= 2
    /\ result.rows = attempt_size

(***************************************************************************)
(* src/Biomaerker_by_entity.py: the batch driver                           *)
(***************************************************************************)
Names == {"MUC16", "Albumin"}

\* blist['BioMarker'].dropna().to_list(): any list of terms, repeats allowed
QueryLists == UNION {[1..n -> Names] : n \in 0..MaxQueries}

\* create_biomarker_list: the set of outcomes for one answer.  A body that is
\* not JSON makes response.json() raise; requests >= 2.27 raises a
\* RequestException subclass (caught, None), older releases a plain
\* ValueError (not caught).  data.get on a JSON value that is not an object
\* raises AttributeError.
CreateBiomarkerList(resp) ==
    IF resp.http = "error"
    THEN {NoneValue}
    ELSE CASE resp.body = "not_json" -> {NoneValue, Raise("ValueError")}
           [] resp.body = "non_object" -> {Raise("AttributeError")}
           [] OTHER -> LET id == DictGet(resp.field) IN
                       IF Falsy(id) THEN {NoneValue} ELSE {id}

\* if list_id:
Truthy(v) == ~IsNone(v) /\ v # Str("")

\* df is not None and not df.empty
HasData(df) == ~IsNone(df) /\ RowCount(df) > 0

\* the placeholder frame of one row
Placeholder(biomarker, id) ==
    [query_biomarker |-> biomarker,
     biomarker_canonical_id |-> IF Truthy(id) THEN "No data found" ELSE "Step 1 failed",
     placeholder |-> TRUE, rows |-> 1]

\* df with the added column query_biomarker
Tagged(df, biomarker) ==
    [query_biomarker |-> biomarker, biomarker_canonical_id |-> "<data>",
     placeholder |-> FALSE, rows |-> RowCount(df)]

\* lines 115-125: what the loop body appends for one term
Entry(df, biomarker, id) ==
    IF HasData(df) THEN Tagged(df, biomarker) ELSE Placeholder(biomarker, id)

InitBatch ==
    /\ initial_size = None
    /\ max_attempts = MAX_SIZE_ATTEMPTS
    /\ attempt_size = None
    /\ attempts = 0
    /\ previous_row_count = None
    /\ list_id = "-"
    /\ pc = "off"
    /\ result = Pending
    /\ exit = "-"
    /\ round = 0
    /\ requests = <<>>
    /\ warnings = <<>>
    /\ dl_routine = "-"
    /\ dl_resp = [http |-> "-"]
    /\ dl_json = [http |-> "-"]
    /\ dl_out = Pending
    /\ dl_pc = "off"
    /\ biomarkers_to_enrich \in QueryLists
    /\ position = 1
    /\ b_pc = "create"
    /\ b_list_id = "-"
    /\ all_results = <<>>
    /\ step_1_successes = 0
    /\ step_2_successes = 0
    /\ b_answers = <<>>

\* the for-loop moves on to the next term
NextTerm == position' = position + 1 /\ b_pc' = "create" /\ b_list_id' = "-"

\* an exception leaves the for-loop: the script ends with a traceback
Crash == b_pc' = "crashed" /\ UNCHANGED <<position, b_list_id>>

\* Lines 103-125 for a term whose list is not created: create_biomarker_list
\* and, when it gave no identifier, the rest of the loop body.
BatchCreate ==
    /\ b_pc = "create"
    /\ position <= Len(biomarkers_to_enrich)
    /\ \E resp \in CreateResponses :
         \E id \in CreateBiomarkerList(resp) :
            LET biomarker == biomarkers_to_enrich[position] IN
            /\ b_answers' = Append(b_answers,
                                   [query |-> biomarker, create |-> resp,
                                    download |-> [http |-> "-"]])
            /\ IF Raised(id)
               THEN /\ Crash
                    /\ UNCHANGED <<all_results, step_1_successes>>
               ELSE IF Truthy(id)
               THEN /\ step_1_successes' = step_1_successes + 1
                    /\ b_list_id' = id.str
                    /\ b_pc' = "download"
                    /\ UNCHANGED <<position, all_results>>
               ELSE /\ all_results' = Append(all_results, Entry(NoneValue, biomarker, id))
                    /\ NextTerm
                    /\ UNCHANGED step_1_successes
    /\ UNCHANGED <<biomarkers_to_enrich, step_2_successes>>
    /\ UNCHANGED fetchVars
    /\ UNCHANGED dlVars

\* Lines 113-125: download_list_data for the created list and the rest of the
\* loop body.
BatchDownload ==
    /\ b_pc = "download"
    /\ \E resp \in ScriptCsvResponses :
         LET biomarker == biomarkers_to_enrich[position]
             df == EntityDownloadListData(resp)
         IN /\ b_answers' = [b_answers EXCEPT ![Len(b_answers)].download = resp]
            /\ IF Raised(df)
               THEN /\ Crash
                    /\ UNCHANGED <<all_results, step_2_successes>>
               ELSE /\ all_results' = Append(all_results,
                                            Entry(df, biomarker, Str(b_list_id)))
                    /\ step_2_successes' = IF HasData(df) THEN step_2_successes + 1
                                           ELSE step_2_successes
                    /\ NextTerm
    /\ UNCHANGED <<biomarkers_to_enrich, step_1_successes>>
    /\ UNCHANGED fetchVars
    /\ UNCHANGED dlVars

\* Lines 127-149: the list is exhausted; combine, save, print the summary.
BatchFinish ==
    /\ b_pc = "create"
    /\ position > Len(biomarkers_to_enrich)
    /\ b_pc' = "done"
    /\ UNCHANGED <<biomarkers_to_enrich, position, b_list_id, all_results,
                   step_1_successes, step_2_successes, b_answers>>
    /\ UNCHANGED fetchVars
    /\ UNCHANGED dlVars

NextBatch == BatchCreate \/ BatchDownload \/ BatchFinish

SpecBatch == InitBatch /\ [][NextBatch]_vars

(***************************************************************************)
(* Claims on the batch driver                                              *)
(***************************************************************************)
\* list creation failed: transport/HTTP error or an answer without list_id
CreationFailed(resp) == resp.http = "error" \/ CarriesNoListId(resp)

\* the download succeeded and held no rows: an empty body, one line, or
\* nothing to parse
DownloadedNothing(resp) ==
    resp.http = "ok" /\ (resp.lines <= 1 \/ resp.shape = "blank")

\* C11: every term that yields no data gets exactly one placeholder row,
\* labelled 'Step 1 failed' exactly when its list creation failed and
\* 'No data found' exactly when the creation succeeded and the download
\* succeeded but held no rows.
CexC11 ==
    /\ Len(all_results) <= Len(b_answers)
    /\ \A k \in 1..Len(all_results) :
          LET e == all_results[k]
              a == b_answers[k]
          IN e.placeholder =>
                /\ e.rows = 1
                /\ e.query_biomarker = a.query
                /\ e.biomarker_canonical_id = "Step 1 failed"
                      <=> CreationFailed(a.create)
                /\ e.biomarker_canonical_id = "No data found"
                      <=> (~CreationFailed(a.create) /\ DownloadedNothing(a.download))

\* the errors C12 names, read off the server's answers for one term: a
\* list-creation failure (transport/HTTP error, or a JSON object without a
\* list_id), a download transport failure, a CSV body that does not parse
NamedError(a) ==
    \/ a.create.http = "error"
    \/ a.create.http = "ok" /\ a.create.body = "object"
          /\ a.create.field \in {"<absent>", "<null>", ""}
    \/ a.download.http = "error"
    \/ a.download.http = "ok" /\ a.download.lines >= 2
          /\ a.download.shape = "malformed"

\* C12: every term is handled once and in input order and contributes one
\* entry; a list-creation failure, a download transport failure or a CSV
\* parse failure ends that term only: the term gets its entry and the loop
\* goes on to the next term until the list is exhausted.
CexC12 ==
    /\ b_pc \in {"create", "done", "download"} => Len(all_results) = position - 1
    /\ \A k \in 1..Len(all_results) :
          all_results[k].query_biomarker = biomarkers_to_enrich[k]
    /\ b_pc = "done" => Len(all_results) = Len(biomarkers_to_enrich)
    /\ \A k \in 1..Len(b_answers) :
          NamedError(b_answers[k]) =>
              /\ Len(all_results) >= k
              /\ k = Len(b_answers) => b_pc \in {"create", "done"}

====
